---- MODULE Spec2Model ----
(***************************************************************************)
(* csv-kit: the decoder (parse), the encoder (generate) and the utilities  *)
(* they are built from (detectDelimiter, splitLines, splitFields,          *)
(* escapeField).                                                           *)
(*                                                                         *)
(* A string is a sequence of characters; a character is a one-character    *)
(* TLA+ string, except for the two tokens BOM (U+FEFF) and "_col1" (a run  *)
(* of ordinary characters that spells the synthetic key of column 1).  The *)
(* code tests characters for equality and strings for emptiness only, so a *)
(* run of ordinary characters behaves like one ordinary character.         *)
(*                                                                         *)
(* Every function of the library is pure.  The state of a specification is *)
(* the position of a caller (pc), the arguments it holds (input), what the *)
(* library has returned so far (output), and the local variables of the    *)
(* splitFields loop (scan).                                                *)
(***************************************************************************)
EXTENDS Integers, Sequences, FiniteSets, TLC

VARIABLES pc, input, output, scan

vars == <<pc, input, output, scan>>

----------------------------------------------------------------------------
(* Characters *)

DQ == "\""
LF == "\n"
CR == "\r"
TAB == "\t"
SP == " "
BOM == "BOM"

DELIMITERS == <<",", ";", TAB, "|">>

DelimiterSet == {DELIMITERS[k] : k \in DOMAIN DELIMITERS}

(* String.prototype.trim removes white space and line terminators,        *)
(* U+FEFF included.                                                       *)
WhiteSpace == {SP, TAB, LF, CR, BOM}

Str(A, n) == UNION {[1..k -> A] : k \in 0..n}

Includes(s, c) == \E k \in DOMAIN s : s[k] = c

RECURSIVE Flatten(_)
Flatten(ss) == IF ss = <<>> THEN <<>> ELSE Head(ss) \o Flatten(Tail(ss))

RECURSIVE Join(_, _)
Join(ss, sep) ==
    IF ss = <<>> THEN <<>>
    ELSE IF Len(ss) = 1 THEN ss[1]
    ELSE ss[1] \o sep \o Join(Tail(ss), sep)

RECURSIVE TrimStart(_)
TrimStart(s) ==
    IF s # <<>> /\ Head(s) \in WhiteSpace THEN TrimStart(Tail(s)) ELSE s

RECURSIVE TrimEnd(_)
TrimEnd(s) ==
    IF s # <<>> /\ s[Len(s)] \in WhiteSpace
    THEN TrimEnd(SubSeq(s, 1, Len(s) - 1))
    ELSE s

Trim(s) == TrimEnd(TrimStart(s))

----------------------------------------------------------------------------
(* utils: splitFields *)

Null == [null |-> TRUE]

Fields(fs) == [null |-> FALSE, fields |-> fs]

(* The locals of splitFields before the loop; i is 1-based here. *)
ScanInit == [fields |-> <<>>, current |-> <<>>, inQuotes |-> FALSE, i |-> 1]

(* An empty field is not pushed. *)
ScanDelimiter_SkipsEmpty(s) ==
    [s EXCEPT !.fields = IF s.current = <<>> THEN s.fields
                         ELSE Append(s.fields, s.current),
              !.current = <<>>,
              !.i = s.i + 1]

(* A delimiter met outside quotes: the field ends. *)
ScanDelimiter(s) ==
    [s EXCEPT !.fields = Append(s.fields, s.current),
              !.current = <<>>,
              !.i = s.i + 1]

(* Any quote met outside quotes opens a quoted field. *)
ScanOpensQuote_Anywhere(s, char) == char = DQ

(* A quote met outside quotes opens a quoted field only at field start. *)
ScanOpensQuote(s, char) == char = DQ /\ s.current = <<>>

(* No quote is taken for half of an escaped pair. *)
ScanEscapedPair_Never(s, line) == FALSE

(* A quote met inside quotes is half of an escaped pair when a quote      *)
(* follows it.                                                            *)
ScanEscapedPair(s, line) == s.i + 1 <= Len(line) /\ line[s.i + 1] = DQ

(* One iteration of the while loop. *)
ScanStep(s, line, delimiter) ==
    LET char == line[s.i] IN
    IF ~s.inQuotes
    THEN IF char = delimiter THEN ScanDelimiter(s)
         ELSE IF ScanOpensQuote(s, char)
              THEN [s EXCEPT !.inQuotes = TRUE, !.i = s.i + 1]
              ELSE [s EXCEPT !.current = Append(s.current, char),
                             !.i = s.i + 1]
    ELSE IF char = DQ
         THEN IF ScanEscapedPair(s, line)
              THEN [s EXCEPT !.current = Append(s.current, DQ),
                             !.i = s.i + 2]
              ELSE [s EXCEPT !.inQuotes = FALSE, !.i = s.i + 1]
         ELSE [s EXCEPT !.current = Append(s.current, char), !.i = s.i + 1]

RECURSIVE ScanRun(_, _, _)
ScanRun(s, line, delimiter) ==
    IF s.i <= Len(line)
    THEN ScanRun(ScanStep(s, line, delimiter), line, delimiter)
    ELSE s

(* The relaxed return leaves out the field that was being read. *)
ScanFinish_DropsPartial(s, relaxed) ==
    IF s.inQuotes
    THEN IF ~relaxed THEN Null ELSE Fields(s.fields)
    ELSE Fields(Append(s.fields, s.current))

(* The relaxed flag is not looked at. *)
ScanFinish_AlwaysStrict(s, relaxed) ==
    IF s.inQuotes THEN Null ELSE Fields(Append(s.fields, s.current))

(* After the loop: the failure signal, or the fields with the last one. *)
ScanFinish(s, relaxed) ==
    IF s.inQuotes /\ ~relaxed THEN Null
    ELSE Fields(Append(s.fields, s.current))

splitFields(line, delimiter, relaxed) ==
    ScanFinish(ScanRun(ScanInit, line, delimiter), relaxed)

----------------------------------------------------------------------------
(* utils: countOutsideQuotes, detectDelimiter *)

RECURSIVE CountFrom(_, _, _, _, _)
CountFrom(line, delimiter, i, count, inQuotes) ==
    IF i > Len(line) THEN count
    ELSE IF line[i] = DQ
         THEN CountFrom(line, delimiter, i + 1, count, ~inQuotes)
         ELSE IF ~inQuotes /\ line[i] = delimiter
              THEN CountFrom(line, delimiter, i + 1, count + 1, inQuotes)
              ELSE CountFrom(line, delimiter, i + 1, count, inQuotes)

countOutsideQuotes(line, delimiter) == CountFrom(line, delimiter, 1, 0, FALSE)

(* Only the first line of the sample is counted. *)
CountsOf_FirstLine(lines, delimiter) ==
    <<countOutsideQuotes(lines[1], delimiter)>>

(* lines.map((line) => countOutsideQuotes(line, delimiter)) *)
CountsOf(lines, delimiter) ==
    [k \in DOMAIN lines |-> countOutsideQuotes(lines[k], delimiter)]

(* counts.filter((c) => c > 0) *)
NonZero(counts) == SelectSeq(counts, LAMBDA c : c > 0)

RECURSIVE InsertSorted(_, _)
InsertSorted(sorted, c) ==
    IF sorted = <<>> THEN <<c>>
    ELSE IF c < Head(sorted) THEN <<c>> \o sorted
    ELSE <<Head(sorted)>> \o InsertSorted(Tail(sorted), c)

(* sort((a, b) => a - b) *)
RECURSIVE SortAscending(_)
SortAscending(cs) ==
    IF cs = <<>> THEN <<>>
    ELSE InsertSorted(SortAscending(Tail(cs)), Head(cs))

(* nonZero.sort(...)[Math.floor(nonZero.length / 2)], for counts with a   *)
(* non-zero element.                                                      *)
ModeOf(counts) ==
    SortAscending(NonZero(counts))[(Len(NonZero(counts)) \div 2) + 1]

(* The largest count of a line is weighed, not the lines at the typical   *)
(* count.                                                                 *)
ScoreOf_Frequency(counts) ==
    SortAscending(NonZero(counts))[Len(NonZero(counts))] * 1000
        + Len(NonZero(counts))

ScoreOf(counts) ==
    LET mode == ModeOf(counts)
        consistent == Len(SelectSeq(counts, LAMBDA c : c = mode))
    IN consistent * 1000 + Len(NonZero(counts))

(* A tie replaces the best candidate. *)
Better_OrEqual(score, bestScore) == score >= bestScore

Better(score, bestScore) == score > bestScore

(* The for loop over DELIMITERS, from candidate k on. *)
RECURSIVE DetectFrom(_, _, _, _)
DetectFrom(lines, k, bestDelimiter, bestScore) ==
    IF k > Len(DELIMITERS) THEN bestDelimiter
    ELSE LET counts == CountsOf(lines, DELIMITERS[k]) IN
         IF NonZero(counts) = <<>>
         THEN DetectFrom(lines, k + 1, bestDelimiter, bestScore)
         ELSE IF Better(ScoreOf(counts), bestScore)
              THEN DetectFrom(lines, k + 1, DELIMITERS[k], ScoreOf(counts))
              ELSE DetectFrom(lines, k + 1, bestDelimiter, bestScore)

detectDelimiter(lines) ==
    IF lines = <<>> THEN "," ELSE DetectFrom(lines, 1, ",", -1)

----------------------------------------------------------------------------
(* utils: splitLines *)

(* The loop splits at every terminator, quoted or not. *)
RECURSIVE SplitLinesFrom_IgnoresQuotes(_, _, _, _, _)
SplitLinesFrom_IgnoresQuotes(csv, i, lines, current, inQuotes) ==
    IF i > Len(csv)
    THEN IF Len(current) > 0 THEN Append(lines, current) ELSE lines
    ELSE LET char == csv[i] IN
         IF char = CR \/ char = LF
         THEN IF char = CR /\ i + 1 <= Len(csv) /\ csv[i + 1] = LF
              THEN SplitLinesFrom_IgnoresQuotes(csv, i + 2, Append(lines, current),
                                                <<>>, inQuotes)
              ELSE SplitLinesFrom_IgnoresQuotes(csv, i + 1, Append(lines, current),
                                                <<>>, inQuotes)
         ELSE SplitLinesFrom_IgnoresQuotes(csv, i + 1, lines,
                                           Append(current, char), inQuotes)

(* The text after the last terminator is pushed even when it is empty. *)
RECURSIVE SplitLinesFrom_KeepsTail(_, _, _, _, _)
SplitLinesFrom_KeepsTail(csv, i, lines, current, inQuotes) ==
    IF i > Len(csv)
    THEN Append(lines, current)
    ELSE LET char == csv[i] IN
         IF char = DQ
         THEN SplitLinesFrom_KeepsTail(csv, i + 1, lines, Append(current, char),
                                       ~inQuotes)
         ELSE IF ~inQuotes /\ (char = CR \/ char = LF)
              THEN IF char = CR /\ i + 1 <= Len(csv) /\ csv[i + 1] = LF
                   THEN SplitLinesFrom_KeepsTail(csv, i + 2, Append(lines, current),
                                                 <<>>, inQuotes)
                   ELSE SplitLinesFrom_KeepsTail(csv, i + 1, Append(lines, current),
                                                 <<>>, inQuotes)
              ELSE SplitLinesFrom_KeepsTail(csv, i + 1, lines,
                                            Append(current, char), inQuotes)

(* The for loop of splitLines from position i on (1-based). *)
RECURSIVE SplitLinesFrom(_, _, _, _, _)
SplitLinesFrom(csv, i, lines, current, inQuotes) ==
    IF i > Len(csv)
    THEN IF Len(current) > 0 THEN Append(lines, current) ELSE lines
    ELSE LET char == csv[i] IN
         IF char = DQ
         THEN SplitLinesFrom(csv, i + 1, lines, Append(current, char), ~inQuotes)
         ELSE IF ~inQuotes /\ (char = CR \/ char = LF)
              THEN IF char = CR /\ i + 1 <= Len(csv) /\ csv[i + 1] = LF
                   THEN SplitLinesFrom(csv, i + 2, Append(lines, current),
                                       <<>>, inQuotes)
                   ELSE SplitLinesFrom(csv, i + 1, Append(lines, current),
                                       <<>>, inQuotes)
              ELSE SplitLinesFrom(csv, i + 1, lines, Append(current, char),
                                  inQuotes)

splitLines(csv) == SplitLinesFrom(csv, 1, <<>>, <<>>, FALSE)

----------------------------------------------------------------------------
(* utils: escapeField *)

(* needsQuoting without the carriage-return test. *)
needsQuoting_NoCR(value, delimiter) ==
    \/ Includes(value, delimiter)
    \/ Includes(value, DQ)
    \/ Includes(value, LF)

needsQuoting(value, delimiter) ==
    \/ Includes(value, delimiter)
    \/ Includes(value, DQ)
    \/ Includes(value, LF)
    \/ Includes(value, CR)

(* replace without the g flag: only the first quote is doubled. *)
ReplaceQuotes_FirstOnly(value) ==
    IF ~Includes(value, DQ) THEN value
    ELSE LET k == CHOOSE j \in DOMAIN value :
                      value[j] = DQ /\ \A m \in 1..(j - 1) : value[m] # DQ
         IN SubSeq(value, 1, k) \o <<DQ>> \o SubSeq(value, k + 1, Len(value))

(* value.replace(/"/g, '""') *)
ReplaceQuotes(value) ==
    Flatten([k \in DOMAIN value |->
                IF value[k] = DQ THEN <<DQ, DQ>> ELSE <<value[k]>>])

escapeField(value, delimiter) ==
    IF ~needsQuoting(value, delimiter) THEN value
    ELSE <<DQ>> \o ReplaceQuotes(value) \o <<DQ>>

----------------------------------------------------------------------------
(* parse *)

Throw(message) == [ok |-> FALSE, error |-> message]

Return(rows) == [ok |-> TRUE, rows |-> rows]

(* The message counts rows from 0. *)
UnclosedQuoteAt_ZeroBased(n) ==
    "csv-kit: unclosed quote at row " \o ToString(n - 1)

UnclosedQuoteAt(n) == "csv-kit: unclosed quote at row " \o ToString(n)

ColumnCountMismatch(n, actual, expected) ==
    "csv-kit: row " \o ToString(n) \o " has " \o ToString(actual)
        \o " fields, expected " \o ToString(expected)

(* csv.charCodeAt(0) === 0xfeff ? csv.slice(1) : csv *)
StripBOM(csv) == IF csv # <<>> /\ csv[1] = BOM THEN Tail(csv) ELSE csv

(* replace(/\r\n/g, "\n") *)
RECURSIVE ReplaceCRLF(_)
ReplaceCRLF(s) ==
    IF s = <<>> THEN <<>>
    ELSE IF Len(s) >= 2 /\ s[1] = CR /\ s[2] = LF
         THEN <<LF>> \o ReplaceCRLF(SubSeq(s, 3, Len(s)))
         ELSE <<Head(s)>> \o ReplaceCRLF(Tail(s))

(* replace(/\r/g, "\n") *)
ReplaceCR(s) == [k \in DOMAIN s |-> IF s[k] = CR THEN LF ELSE s[k]]

Normalize(csv) == ReplaceCR(ReplaceCRLF(csv))

(* lines.filter((line) => line.length > 0) *)
NonEmptyLines(lines) == SelectSeq(lines, LAMBDA line : Len(line) > 0)

(* The lines parse hands to parseWithHeader or parseWithoutHeader. *)
KeptLines(csv, options) ==
    LET lines == splitLines(Normalize(StripBOM(csv))) IN
    IF options.skipEmptyLines THEN NonEmptyLines(lines) ELSE lines

(* lines.slice(0, 10) *)
SampleSize == 10

FirstLines(lines) ==
    SubSeq(lines, 1, IF Len(lines) < SampleSize THEN Len(lines) ELSE SampleSize)

ActiveDelimiter(lines, options) ==
    IF options.delimiter = "auto" THEN detectDelimiter(FirstLines(lines))
    ELSE options.delimiter

(* transformHeader, when given: here the callback (header, index) => "a". *)
ApplyTransform(transformHeader, value, index) ==
    IF transformHeader = "absent" THEN value ELSE <<"a">>

(* headerFields.map(...) *)
HeaderNames(headerFields, trim, transformHeader) ==
    [k \in DOMAIN headerFields |->
        ApplyTransform(transformHeader,
                       IF trim THEN Trim(headerFields[k]) ELSE headerFields[k],
                       k - 1)]

PROTO == "__proto__"

(* row[key] = value on an object literal: an own property is set, except  *)
(* for the key __proto__, whose setter drops a string.                    *)
Assign(row, key, value) ==
    IF key = <<PROTO>> THEN row
    ELSE [k \in DOMAIN row \cup {key} |-> IF k = key THEN value ELSE row[k]]

(* The synthetic key is numbered from 1. *)
ColKey_OneBased(j) == <<"_col" \o ToString(j + 1)>>

(* `_col${j}`, j the 0-based index of the field *)
ColKey(j) == <<"_col" \o ToString(j)>>

(* The first loop over a line's fields: one assignment per header. *)
RECURSIVE AssignHeaders(_, _, _, _, _)
AssignHeaders(row, headers, fields, trim, j) ==
    IF j > Len(headers) THEN row
    ELSE LET value == IF j <= Len(fields) THEN fields[j] ELSE <<>> IN
         AssignHeaders(Assign(row, headers[j], IF trim THEN Trim(value) ELSE value),
                       headers, fields, trim, j + 1)

(* The second loop: one synthetic key per field beyond the headers. *)
RECURSIVE AssignExtras(_, _, _, _)
AssignExtras(row, fields, trim, j) ==
    IF j > Len(fields) THEN row
    ELSE AssignExtras(Assign(row, ColKey(j - 1),
                             IF trim THEN Trim(fields[j]) ELSE fields[j]),
                      fields, trim, j + 1)

EmptyRow == <<>>

(* In relaxed mode the last header's field gets a synthetic key as well. *)
BuildRow_ExtrasFromLast(headers, fields, trim, relaxed) ==
    LET row == AssignHeaders(EmptyRow, headers, fields, trim, 1) IN
    IF relaxed /\ Len(fields) >= Len(headers) /\ Len(headers) > 0
    THEN AssignExtras(row, fields, trim, Len(headers))
    ELSE row

BuildRow(headers, fields, trim, relaxed) ==
    LET row == AssignHeaders(EmptyRow, headers, fields, trim, 1) IN
    IF relaxed /\ Len(fields) > Len(headers)
    THEN AssignExtras(row, fields, trim, Len(headers) + 1)
    ELSE row

(* Only a line with too few fields is a mismatch. *)
CountMismatch_OnlyFewer(relaxed, fields, headers) ==
    ~relaxed /\ Len(fields) < Len(headers)

(* The strict test of a line's field count against the header's. *)
CountMismatch(relaxed, fields, headers) ==
    ~relaxed /\ Len(fields) # Len(headers)

(* The for loop of parseWithHeader from line i on (1-based: line i is row *)
(* i of the messages).                                                    *)
RECURSIVE HeaderRowsFrom(_, _, _, _, _, _, _)
HeaderRowsFrom(lines, i, headers, delimiter, trim, relaxed, results) ==
    IF i > Len(lines) THEN Return(results)
    ELSE LET split == splitFields(lines[i], delimiter, relaxed) IN
         IF split = Null THEN Throw(UnclosedQuoteAt(i))
         ELSE IF CountMismatch(relaxed, split.fields, headers)
              THEN Throw(ColumnCountMismatch(i, Len(split.fields), Len(headers)))
              ELSE HeaderRowsFrom(lines, i + 1, headers, delimiter, trim, relaxed,
                       Append(results,
                              BuildRow(headers, split.fields, trim, relaxed)))

parseWithHeader(lines, delimiter, trim, transformHeader, relaxed) ==
    LET split == splitFields(lines[1], delimiter, relaxed) IN
    IF split = Null THEN Throw(UnclosedQuoteAt(1))
    ELSE HeaderRowsFrom(lines, 2,
                        HeaderNames(split.fields, trim, transformHeader),
                        delimiter, trim, relaxed, <<>>)

(* The for loop of parseWithoutHeader from line i on. *)
RECURSIVE PlainRowsFrom(_, _, _, _, _, _)
PlainRowsFrom(lines, i, delimiter, trim, relaxed, results) ==
    IF i > Len(lines) THEN Return(results)
    ELSE LET split == splitFields(lines[i], delimiter, relaxed) IN
         IF split = Null THEN Throw(UnclosedQuoteAt(i))
         ELSE PlainRowsFrom(lines, i + 1, delimiter, trim, relaxed,
                  Append(results,
                         IF trim
                         THEN [k \in DOMAIN split.fields |-> Trim(split.fields[k])]
                         ELSE split.fields))

(* Each line is trimmed before it is split. *)
parseWithoutHeader_TrimsLines(lines, delimiter, trim, relaxed) ==
    PlainRowsFrom([k \in DOMAIN lines |-> IF trim THEN Trim(lines[k]) ELSE lines[k]],
                  1, delimiter, trim, relaxed, <<>>)

(* The first line is taken for a header and skipped. *)
parseWithoutHeader_SkipsFirst(lines, delimiter, trim, relaxed) ==
    PlainRowsFrom(lines, 2, delimiter, trim, relaxed, <<>>)

parseWithoutHeader(lines, delimiter, trim, relaxed) ==
    PlainRowsFrom(lines, 1, delimiter, trim, relaxed, <<>>)

parse(csv, options) ==
    LET lines == KeptLines(csv, options) IN
    IF Len(lines) = 0 THEN Return(<<>>)
    ELSE IF options.header
         THEN parseWithHeader(lines, ActiveDelimiter(lines, options), options.trim,
                              options.transformHeader, options.relaxed)
         ELSE parseWithoutHeader(lines, ActiveDelimiter(lines, options),
                                 options.trim, options.relaxed)

(* The defaults of ParseOptions. *)
DefaultParseOptions ==
    [header |-> TRUE, delimiter |-> "auto", skipEmptyLines |-> TRUE,
     trim |-> TRUE, transformHeader |-> "absent", relaxed |-> FALSE]

----------------------------------------------------------------------------
(* generate *)

(* A value of a row: null (or undefined), or a text (String(raw)). *)
NullValue == [null |-> TRUE]

Text(s) == [null |-> FALSE, text |-> s]

(* A row object: its own keys in the order of Object.keys, and the value  *)
(* of each.                                                               *)
Object(keys, get) == [keys |-> keys, get |-> get]

KeySet(row) == {row.keys[k] : k \in DOMAIN row.keys}

(* What an object literal inherits from Object.prototype: here its         *)
(* constructor, whose String() is the source text of the function Object. *)
Inherited ==
    [key \in {<<"constructor">>} |->
        [null |-> FALSE, text |-> <<"function Object() { [native code] }">>]]

(* row[key]: the own property, else the inherited one, else undefined. *)
Get(row, key) ==
    IF key \in KeySet(row) THEN row.get[key]
    ELSE IF key \in DOMAIN Inherited THEN Inherited[key]
    ELSE NullValue

(* raw == null ? "" : String(raw) *)
StringOf(raw) == IF raw.null THEN <<>> ELSE raw.text

NoColumns == [kind |-> "absent"]

(* The keys generate reads from each row. *)
ProjectedKeys(data, columns) ==
    IF columns.kind = "list" THEN columns.keys
    ELSE IF columns.kind = "map" THEN columns.keys
    ELSE IF Len(data) > 0 THEN data[1].keys
    ELSE <<>>

(* The names of the header line. *)
ProjectedHeaders(data, columns) ==
    IF columns.kind = "list" THEN columns.keys
    ELSE IF columns.kind = "map" THEN columns.headers
    ELSE IF Len(data) > 0 THEN data[1].keys
    ELSE <<>>

HeaderLine(headers, delimiter) ==
    Join([k \in DOMAIN headers |-> escapeField(headers[k], delimiter)],
         <<delimiter>>)

(* The values of a row are joined as they are. *)
RowLine_Unescaped(row, keys, delimiter) ==
    Join([k \in DOMAIN keys |-> StringOf(Get(row, keys[k]))], <<delimiter>>)

RowLine(row, keys, delimiter) ==
    Join([k \in DOMAIN keys |->
             escapeField(StringOf(Get(row, keys[k])), delimiter)],
         <<delimiter>>)

(* The byte-order mark is written only in front of some line. *)
generate_BomOnlyWithLines(data, options) ==
    LET keys == ProjectedKeys(data, options.columns)
        headers == ProjectedHeaders(data, options.columns)
        headerLines ==
            IF options.header /\ Len(headers) > 0
            THEN <<HeaderLine(headers, options.delimiter)>>
            ELSE <<>>
        lines ==
            headerLines
                \o [k \in DOMAIN data |-> RowLine(data[k], keys, options.delimiter)]
        result == Join(lines, options.newline)
    IN IF options.bom /\ lines # <<>> THEN <<BOM>> \o result ELSE result

generate(data, options) ==
    LET keys == ProjectedKeys(data, options.columns)
        headers == ProjectedHeaders(data, options.columns)
        headerLines ==
            IF options.header /\ Len(headers) > 0
            THEN <<HeaderLine(headers, options.delimiter)>>
            ELSE <<>>
        lines ==
            headerLines
                \o [k \in DOMAIN data |-> RowLine(data[k], keys, options.delimiter)]
        result == Join(lines, options.newline)
    IN IF options.bom THEN <<BOM>> \o result ELSE result

(* The defaults of GenerateOptions. *)
DefaultGenerateOptions ==
    [header |-> TRUE, delimiter |-> ",", newline |-> <<LF>>, bom |-> FALSE,
     columns |-> NoColumns]

----------------------------------------------------------------------------
(* A caller escapes a value and splits the escaped text back. *)

MaxValueLen == 3

ValueChars == {"a", ",", ";", TAB, "|", DQ, LF, CR}

NoOutput == [none |-> TRUE]

InitEscape ==
    /\ pc = "start"
    /\ input \in [value : Str(ValueChars, MaxValueLen), delimiter : DelimiterSet]
    /\ output = NoOutput
    /\ scan = ScanInit

Escape ==
    /\ pc = "start"
    /\ pc' = "escaped"
    /\ output' = [escaped |-> escapeField(input.value, input.delimiter)]
    /\ UNCHANGED <<input, scan>>

SplitEscaped ==
    /\ pc = "escaped"
    /\ pc' = "split"
    /\ output' = [escaped |-> output.escaped,
                  split |-> splitFields(output.escaped, input.delimiter, FALSE)]
    /\ UNCHANGED <<input, scan>>

NextEscape == Escape \/ SplitEscaped

SpecEscape == InitEscape /\ [][NextEscape]_vars

IsString(s) == DOMAIN s = 1..Len(s)

RECURSIVE Doubled(_)
Doubled(s) ==
    IF s = <<>> THEN <<>>
    ELSE (IF Head(s) = DQ THEN <<DQ, DQ>> ELSE <<Head(s)>>) \o Doubled(Tail(s))

Reserved(delimiter) == {delimiter, DQ, LF, CR}

HasReserved(v, delimiter) == \E k \in DOMAIN v : v[k] \in Reserved(delimiter)

(* C6: escapeField(v, d) is v itself exactly when v holds none of d, the   *)
(* double quote, \n and \r; otherwise it is a double quote, v with every   *)
(* double quote doubled, and a double quote.  It always returns a string.  *)
C6_EscapeFieldContract ==
    pc \in {"escaped", "split"} =>
        LET v == input.value
            d == input.delimiter
            e == output.escaped
        IN /\ IsString(e)
           /\ (e = v) <=> ~HasReserved(v, d)
           /\ HasReserved(v, d) => e = <<DQ>> \o Doubled(v) \o <<DQ>>

(* C6 witness: a value with a quote and a carriage return has been escaped. *)
C6_Witness ==
    /\ pc = "escaped"
    /\ Includes(input.value, DQ)
    /\ Includes(input.value, CR)
    /\ Len(output.escaped) = Len(input.value) + 3

(* C7: splitting an escaped value with the strict splitter gives back the  *)
(* one field v, for each of the four delimiters.                           *)
C7_EscapeSplitRoundTrip ==
    pc = "split" => output.split = Fields(<<input.value>>)

(* C7 witness: a value with two quotes and the delimiter came back whole. *)
C7_Witness ==
    /\ pc = "split"
    /\ Len(input.value) = 3
    /\ Len(SelectSeq(input.value, LAMBDA c : c = DQ)) = 2
    /\ Includes(input.value, input.delimiter)
    /\ output.split = Fields(<<input.value>>)

----------------------------------------------------------------------------
(* A caller detects the delimiter of a sample, and of the sample with one *)
(* of its lines that hold no delimiter outside quotes left out.           *)

MaxSampleChars == 5

SampleChars == {"a", ",", ";", TAB, "|", DQ}

(* The pieces of a text between the occurrences of a mark. *)
RECURSIVE CutAt(_, _)
CutAt(text, mark) ==
    IF ~Includes(text, mark) THEN <<text>>
    ELSE LET k == CHOOSE j \in DOMAIN text :
                      text[j] = mark /\ \A m \in 1..(j - 1) : text[m] # mark
         IN <<SubSeq(text, 1, k - 1)>>
               \o CutAt(SubSeq(text, k + 1, Len(text)), mark)

Without(lines, p) == SubSeq(lines, 1, p - 1) \o SubSeq(lines, p + 1, Len(lines))

(* The samples: no line at all, or the lines of a text of at most         *)
(* MaxSampleChars characters, line feeds included.                        *)
InitDetect ==
    /\ pc = "start"
    /\ \/ input = [lines |-> <<>>]
       \/ \E text \in Str(SampleChars \cup {LF}, MaxSampleChars) :
             input = [lines |-> CutAt(text, LF)]
    /\ output = NoOutput
    /\ scan = ScanInit

Detect ==
    /\ pc = "start"
    /\ pc' = "detected"
    /\ output' = [delimiter |-> detectDelimiter(input.lines)]
    /\ UNCHANGED <<input, scan>>

DetectWithout ==
    /\ pc = "detected"
    /\ \E p \in DOMAIN input.lines :
          /\ \A k \in DOMAIN DELIMITERS :
                countOutsideQuotes(input.lines[p], DELIMITERS[k]) = 0
          /\ output' = [delimiter |-> output.delimiter,
                        left |-> p,
                        without |-> detectDelimiter(Without(input.lines, p))]
    /\ pc' = "compared"
    /\ UNCHANGED <<input, scan>>

NextDetect == Detect \/ DetectWithout

SpecDetect == InitDetect /\ [][NextDetect]_vars

(* The occurrences of c in a line that an even number of quotes precede. *)
OutsideQuotes(line, c) ==
    Cardinality({k \in DOMAIN line :
                    /\ line[k] = c
                    /\ Cardinality({j \in 1..(k - 1) : line[j] = DQ}) % 2 = 0})

Occurs(lines, c) == \E k \in DOMAIN lines : OutsideQuotes(lines[k], c) > 0

(* The element at index floor(n/2) of the n non-zero counts in ascending  *)
(* order: the value v with fewer than floor(n/2)+1 counts below it and at *)
(* least floor(n/2)+1 counts not above it.                                *)
TypicalCount(lines, c) ==
    LET nz == {k \in DOMAIN lines : OutsideQuotes(lines[k], c) > 0}
        m == Cardinality(nz) \div 2
    IN CHOOSE v \in {OutsideQuotes(lines[k], c) : k \in nz} :
          /\ Cardinality({k \in nz : OutsideQuotes(lines[k], c) < v}) <= m
          /\ Cardinality({k \in nz : OutsideQuotes(lines[k], c) <= v}) > m

Score(lines, c) ==
    LET typical == TypicalCount(lines, c) IN
    1000 * Cardinality({k \in DOMAIN lines : OutsideQuotes(lines[k], c) = typical})
    + Cardinality({k \in DOMAIN lines : OutsideQuotes(lines[k], c) > 0})

Priority(c) == CHOOSE k \in DOMAIN DELIMITERS : DELIMITERS[k] = c

(* C8: detectDelimiter returns one of the four candidates: ',' when no     *)
(* candidate occurs outside quotes in any line of the sample (or there is  *)
(* no line); otherwise a candidate that occurs, whose score no occurring   *)
(* candidate exceeds, and that comes first among those of equal score.     *)
C8_DetectDelimiterResult ==
    pc \in {"detected", "compared"} =>
        LET L == input.lines
            r == output.delimiter
            occurring == {c \in DelimiterSet : Occurs(L, c)}
        IN /\ r \in DelimiterSet
           /\ occurring = {} => r = ","
           /\ occurring # {} =>
                 /\ r \in occurring
                 /\ \A c \in occurring :
                       \/ Score(L, c) < Score(L, r)
                       \/ Score(L, c) = Score(L, r) /\ Priority(r) <= Priority(c)

(* C8 witness: ';' was detected although ',' occurs and comes first,      *)
(* because more lines have the typical count of ';'.                      *)
C8_Witness ==
    /\ pc = "detected"
    /\ output.delimiter = ";"
    /\ Occurs(input.lines, ",")
    /\ Score(input.lines, ";") >= 1000 + Score(input.lines, ",")

(* C9: a line in which no candidate occurs outside quotes does not change *)
(* the result: the sample with such a line at any position and the sample *)
(* without it give the same delimiter.                                    *)
C9_ZeroLinesDoNotMatter ==
    pc = "compared" =>
        ((\A c \in DelimiterSet : OutsideQuotes(input.lines[output.left], c) = 0)
            => output.without = output.delimiter)

(* C9 witness: a sample that starts with a one-field line gave ';' with   *)
(* and without that line.                                                 *)
C9_Witness ==
    /\ pc = "compared"
    /\ output.left = 1
    /\ input.lines[1] = <<"a">>
    /\ Len(input.lines) = 3
    /\ OutsideQuotes(input.lines[2], ";") = 1
    /\ OutsideQuotes(input.lines[3], ";") = 1
    /\ output.delimiter = ";"
    /\ output.without = ";"

(* Candidate c occurs the same number of times, at least once, outside    *)
(* quotes in every line.                                                  *)
Steady(lines, c) ==
    /\ lines # <<>>
    /\ OutsideQuotes(lines[1], c) >= 1
    /\ \A k \in DOMAIN lines : OutsideQuotes(lines[k], c) = OutsideQuotes(lines[1], c)

(* Candidate d does not have the same count in every line. *)
Varying(lines, d) ==
    \E i, j \in DOMAIN lines : OutsideQuotes(lines[i], d) # OutsideQuotes(lines[j], d)

(* C16: when a candidate c occurs the same number N >= 1 of times outside *)
(* quotes in every line of the sample and a candidate d does not have the *)
(* same count in every line, the score of c exceeds the score of d and d  *)
(* is not the result, whichever comes first in DELIMITERS and however     *)
(* often d occurs.                                                        *)
C16_ConsistencyBeatsFrequency ==
    pc \in {"detected", "compared"} =>
        \A c, d \in DelimiterSet :
            (Steady(input.lines, c) /\ Varying(input.lines, d)) =>
                /\ ScoreOf(CountsOf(input.lines, c)) > ScoreOf(CountsOf(input.lines, d))
                /\ Score(input.lines, c) > Score(input.lines, d)
                /\ output.delimiter # d

(* C16 witness: ';' occurs once in each of two lines, ',' twice in one    *)
(* and comes first in DELIMITERS, and ';' was detected.                   *)
C16_Witness ==
    /\ pc = "detected"
    /\ Len(input.lines) = 2
    /\ Steady(input.lines, ";")
    /\ Varying(input.lines, ",")
    /\ OutsideQuotes(input.lines[1], ",") = 2
    /\ output.delimiter = ";"

----------------------------------------------------------------------------
(* splitFields run one loop iteration at a time. *)

MaxLineLen == 5

LineChars == {"a", ",", ";", DQ, LF}

InitScan ==
    /\ pc = "scanning"
    /\ input \in [line : Str(LineChars, MaxLineLen),
                  delimiter : DelimiterSet,
                  relaxed : BOOLEAN]
    /\ output = NoOutput
    /\ scan = ScanInit

ScanLoop ==
    /\ pc = "scanning"
    /\ scan.i <= Len(input.line)
    /\ scan' = ScanStep(scan, input.line, input.delimiter)
    /\ UNCHANGED <<pc, input, output>>

ScanReturn ==
    /\ pc = "scanning"
    /\ scan.i > Len(input.line)
    /\ pc' = "returned"
    /\ output' = [result |-> ScanFinish(scan, input.relaxed)]
    /\ UNCHANGED <<input, scan>>

NextScan == ScanLoop \/ ScanReturn

SpecScan == InitScan /\ [][NextScan]_vars

(* The states the loop goes through on a line, the last one included. *)
RECURSIVE ScanTrace(_, _, _)
ScanTrace(s, line, delimiter) ==
    IF s.i <= Len(line)
    THEN <<s>> \o ScanTrace(ScanStep(s, line, delimiter), line, delimiter)
    ELSE <<s>>

(* Some quote opened a field (it was met outside quotes with an empty     *)
(* buffer) and the scan stayed inside quotes from then on.                *)
OpenedNeverClosed(line, delimiter) ==
    LET t == ScanTrace(ScanInit, line, delimiter) IN
    \E k \in 1..(Len(t) - 1) :
        /\ ~t[k].inQuotes
        /\ t[k].current = <<>>
        /\ line[t[k].i] = DQ
        /\ \A j \in (k + 1)..Len(t) : t[j].inQuotes

(* C10: the scan ends inside quotes exactly when a quote opened a field    *)
(* and was never closed; then the strict call returns the failure signal   *)
(* and the relaxed call returns the fields with the partly read field      *)
(* last, which is what the strict call returns for the line with one       *)
(* closing quote appended.  When the scan ends outside quotes both modes   *)
(* return the same fields.                                                 *)
C10_EndOfInputRule ==
    pc = "returned" =>
        LET line == input.line
            d == input.delimiter
        IN /\ scan.inQuotes <=> OpenedNeverClosed(line, d)
           /\ scan.inQuotes /\ ~input.relaxed => output.result = Null
           /\ scan.inQuotes /\ input.relaxed =>
                 /\ output.result = Fields(Append(scan.fields, scan.current))
                 /\ output.result = splitFields(line \o <<DQ>>, d, FALSE)
           /\ ~scan.inQuotes =>
                 /\ output.result # Null
                 /\ output.result = splitFields(line, d, TRUE)
                 /\ output.result = splitFields(line, d, FALSE)

(* C10 witness: a relaxed call returned after the input ended inside a    *)
(* quoted field that already held an escaped quote.                       *)
C10_Witness ==
    /\ pc = "returned"
    /\ input.relaxed
    /\ scan.inQuotes
    /\ Includes(scan.current, DQ)
    /\ scan.fields # <<>>
    /\ output.result = Fields(Append(scan.fields, scan.current))

(* The scan is about to read a character. *)
Reading == pc = "scanning" /\ scan.i <= Len(input.line)

(* The state after the character is read. *)
AfterStep == ScanStep(scan, input.line, input.delimiter)

(* The scan is at the start of a field: at the start of the line, or just *)
(* after a delimiter that was read outside quotes.                        *)
AtFieldStart ==
    \/ scan.i = 1
    \/ LET t == ScanTrace(ScanInit, input.line, input.delimiter) IN
       \E k \in DOMAIN t :
           /\ t[k].i = scan.i - 1
           /\ ~t[k].inQuotes
           /\ input.line[t[k].i] = input.delimiter

(* C17: the quoted state is entered only by a quote that is the first     *)
(* character of a field.  A quote read outside quotes when the buffer     *)
(* holds characters is appended as text and the state stays unquoted; a   *)
(* quote read outside quotes with an empty buffer is at the start of a    *)
(* field, and only such a step leads from unquoted to quoted.             *)
C17_QuoteOpensOnlyAtFieldStart ==
    (Reading /\ ~scan.inQuotes) =>
        /\ (input.line[scan.i] = DQ /\ scan.current # <<>>) =>
              AfterStep = [scan EXCEPT !.current = Append(scan.current, DQ),
                                       !.i = scan.i + 1]
        /\ (input.line[scan.i] = DQ /\ scan.current = <<>>) =>
              /\ AtFieldStart
              /\ AfterStep = [scan EXCEPT !.inQuotes = TRUE, !.i = scan.i + 1]
        /\ AfterStep.inQuotes =>
              /\ input.line[scan.i] = DQ
              /\ scan.current = <<>>
              /\ AtFieldStart

(* C17 witness: in the second field, after the character a, an unquoted  *)
(* quote is about to be read.                                             *)
C17_Witness ==
    /\ Reading
    /\ ~scan.inQuotes
    /\ scan.fields = <<<<>>>>
    /\ scan.current = <<"a">>
    /\ input.line[scan.i] = DQ
    /\ ~AtFieldStart

(* C18: inside quotes, a quote followed by a quote appends one quote and  *)
(* advances by two; a quote not followed by a quote ends the quoted state *)
(* and appends nothing; any other character, the delimiter and line       *)
(* breaks included, is appended as it is and ends neither the field nor   *)
(* the quoted state.  Two escaped pairs in a row give two quotes.         *)
C18_QuotedState ==
    (Reading /\ scan.inQuotes) =>
        LET i == scan.i
            line == input.line
            pair(k) == k + 1 <= Len(line) /\ line[k] = DQ /\ line[k + 1] = DQ
        IN /\ pair(i) =>
                 AfterStep = [scan EXCEPT !.current = Append(scan.current, DQ),
                                          !.i = i + 2]
           /\ (line[i] = DQ /\ ~pair(i)) =>
                 AfterStep = [scan EXCEPT !.inQuotes = FALSE, !.i = i + 1]
           /\ line[i] # DQ =>
                 AfterStep = [scan EXCEPT !.current = Append(scan.current, line[i]),
                                          !.i = i + 1]
           /\ (pair(i) /\ pair(i + 2)) =>
                 ScanStep(AfterStep, line, input.delimiter) =
                    [scan EXCEPT !.current = scan.current \o <<DQ, DQ>>,
                                 !.i = i + 4]

(* C18 witness: inside quotes, two escaped pairs in a row have been read  *)
(* into one field as two quotes, and the field is still open.             *)
C18_Witness ==
    /\ pc = "scanning"
    /\ scan.inQuotes
    /\ input.line = <<DQ, DQ, DQ, DQ, DQ>>
    /\ scan.i = 6
    /\ scan.current = <<DQ, DQ>>
    /\ scan.fields = <<>>

(* The delimiters the scan of a line read outside quotes. *)
DelimitersMet(line, delimiter) ==
    LET t == ScanTrace(ScanInit, line, delimiter) IN
    {k \in 1..(Len(t) - 1) : ~t[k].inQuotes /\ line[t[k].i] = delimiter}

(* C19: when splitFields returns fields, there is one more of them than   *)
(* delimiters read outside quotes: so at least one, the single empty      *)
(* field for the empty line, and an empty last field after a delimiter    *)
(* that ends the line outside quotes.                                     *)
C19_FieldCount ==
    (pc = "returned" /\ output.result # Null) =>
        LET fields == output.result.fields
            line == input.line
            met == DelimitersMet(line, input.delimiter)
        IN /\ Len(fields) = 1 + Cardinality(met)
           /\ fields # <<>>
           /\ line = <<>> => fields = <<<<>>>>
           /\ (line # <<>> /\ Len(ScanTrace(ScanInit, line, input.delimiter)) - 1 \in met)
                 => fields[Len(fields)] = <<>>

(* C19 witness: a line with a quoted delimiter and a final delimiter gave *)
(* two fields, the last one empty.                                        *)
C19_Witness ==
    /\ pc = "returned"
    /\ input.delimiter = ","
    /\ input.line = <<DQ, ",", DQ, ",">>
    /\ output.result = Fields(<<<<",">>, <<>>>>)

----------------------------------------------------------------------------
(* A caller generates a text from rows of strings and parses it back,     *)
(* with the default options on both sides.                                *)

MaxTableChars == 5

CellChars == {"a", ",", ";", DQ, LF, SP}

CellMark == "<cell>"

(* The table of n columns whose cells are given row by row: the first row *)
(* of cells holds the keys, each further row the values of one object.    *)
Table(cells, n) ==
    LET keys == SubSeq(cells, 1, n) IN
    [r \in 1..((Len(cells) \div n) - 1) |->
        Object(keys, [key \in {keys[c] : c \in 1..n} |->
                         Text(cells[r * n + (CHOOSE c \in 1..n : keys[c] = key)])])]

(* The numbers of columns the cells can be laid out in, the first row of  *)
(* cells being distinct keys.                                             *)
Layouts(cells) ==
    {n \in 1..Len(cells) :
        /\ Len(cells) % n = 0
        /\ \A i, j \in 1..n : i # j => cells[i] # cells[j]}

(* The row collections: no row, one object without keys, and every table  *)
(* with distinct keys whose cells and cell marks together are at most     *)
(* MaxTableChars.                                                         *)
InitRoundTrip ==
    /\ pc = "start"
    /\ \/ input \in [data : {<<>>, <<Object(<<>>, <<>>)>>}]
       \/ \E text \in Str(CellChars \cup {CellMark}, MaxTableChars) :
             \E n \in Layouts(CutAt(text, CellMark)) :
                input = [data |-> Table(CutAt(text, CellMark), n)]
    /\ output = NoOutput
    /\ scan = ScanInit

Generate ==
    /\ pc = "start"
    /\ pc' = "generated"
    /\ output' = [csv |-> generate(input.data, DefaultGenerateOptions)]
    /\ UNCHANGED <<input, scan>>

ParseBack ==
    /\ pc = "generated"
    /\ pc' = "parsed back"
    /\ output' = [csv |-> output.csv,
                  parsed |-> parse(output.csv, DefaultParseOptions)]
    /\ UNCHANGED <<input, scan>>

NextRoundTrip == Generate \/ ParseBack

SpecRoundTrip == InitRoundTrip /\ [][NextRoundTrip]_vars

(* The rows as parse would return them: each a mapping from key to text. *)
AsParsed(data) ==
    [r \in DOMAIN data |-> [key \in KeySet(data[r]) |-> data[r].get[key].text]]

(* C1 as stated: for every collection of rows of strings with the first   *)
(* row's keys, parse(generate(rows)) with the defaults returns the rows.   *)
C1_Original ==
    pc = "parsed back" => output.parsed = Return(AsParsed(input.data))

(* The strings of a collection: its keys and its values. *)
StringsOf(data) ==
    UNION {KeySet(data[r]) \cup {data[r].get[key].text : key \in KeySet(data[r])} :
           r \in DOMAIN data}

(* A collection whose text reads back unambiguously with the defaults. *)
Unambiguous(data) ==
    \/ data = <<>>
    \/ /\ data[1].keys # <<>>
       /\ \A s \in StringsOf(data) :
             /\ Trim(s) = s
             /\ ~Includes(s, CR)
             /\ s # <<PROTO>>
       /\ Len(data[1].keys) = 1 =>
             \A s \in StringsOf(data) :
                /\ s # <<>>
                /\ ~Includes(s, ";") /\ ~Includes(s, TAB) /\ ~Includes(s, "|")

(* C1 amended: the round trip returns the rows when the collection is     *)
(* empty, or when the rows have at least one key, no key or value has     *)
(* leading or trailing white space or a carriage return, no key is        *)
(* __proto__, and, with a single key, the key and the values are not      *)
(* empty and hold no ';', tab or '|'.                                     *)
C1_RoundTrip ==
    (pc = "parsed back" /\ Unambiguous(input.data))
        => output.parsed = Return(AsParsed(input.data))

(* C1 witness: a row with a quote and a comma in its values came back. *)
C1_Witness ==
    /\ pc = "parsed back"
    /\ Unambiguous(input.data)
    /\ Len(input.data) = 1
    /\ Len(input.data[1].keys) = 2
    /\ \E s \in StringsOf(input.data) : Includes(s, DQ)
    /\ \E s \in StringsOf(input.data) : Includes(s, ",")
    /\ output.parsed = Return(AsParsed(input.data))

----------------------------------------------------------------------------
(* A caller parses a text with some options. *)

MaxDocLen == 4

DocChars == {"a", "_col1", ",", ";", DQ, LF, SP}

ParseOptionSets ==
    [header : BOOLEAN, delimiter : {"auto", ","}, skipEmptyLines : BOOLEAN,
     trim : BOOLEAN, transformHeader : {"absent"}, relaxed : BOOLEAN]

InitParse ==
    /\ pc = "start"
    /\ input \in [csv : Str(DocChars, MaxDocLen)]
    /\ output = NoOutput
    /\ scan = ScanInit

Parse ==
    /\ pc = "start"
    /\ pc' = "parsed"
    /\ \E options \in ParseOptionSets :
          /\ input' = [csv |-> input.csv, options |-> options]
          /\ output' = parse(input.csv, options)
    /\ UNCHANGED scan

NextParse == Parse

SpecParse == InitParse /\ [][NextParse]_vars

(* What the claims about parse speak of: the kept lines, the delimiter in *)
(* use, the split of each line, whether it ends inside an open quote, and *)
(* the header names.                                                      *)
Facts ==
    LET lines == KeptLines(input.csv, input.options)
        delimiter == ActiveDelimiter(lines, input.options)
        fields == [k \in DOMAIN lines |->
                      Append(ScanRun(ScanInit, lines[k], delimiter).fields,
                             ScanRun(ScanInit, lines[k], delimiter).current)]
    IN [lines |-> lines,
        unclosed |-> [k \in DOMAIN lines |->
                         ScanRun(ScanInit, lines[k], delimiter).inQuotes],
        fields |-> fields,
        names |-> IF Len(lines) = 0 THEN <<>>
                  ELSE HeaderNames(fields[1], input.options.trim,
                                   input.options.transformHeader)]

FieldCount(F, k) == Len(F.fields[k])

(* A strict parse cannot get past line k. *)
Offends(F, k) ==
    \/ F.unclosed[k]
    \/ /\ input.options.header
       /\ k > 1
       /\ ~F.unclosed[1]
       /\ FieldCount(F, k) # FieldCount(F, 1)

(* C2: strict headered parse: when the first offending data line is row n  *)
(* and it splits into a fields while the header has h fields, a # h, parse *)
(* fails with "row n has a fields, expected h" and returns no rows.        *)
C2_ColumnCountMismatch ==
    (pc = "parsed" /\ input.options.header /\ ~input.options.relaxed) =>
        \A F \in {Facts} :
            \A n \in 2..Len(F.lines) :
                (/\ ~F.unclosed[1]
                 /\ \A k \in 2..(n - 1) : ~Offends(F, k)
                 /\ ~F.unclosed[n]
                 /\ FieldCount(F, n) # FieldCount(F, 1))
                => /\ ~output.ok
                   /\ "rows" \notin DOMAIN output
                   /\ output.error =
                         "csv-kit: " \o "row " \o ToString(n) \o " has "
                            \o ToString(FieldCount(F, n)) \o " fields, expected "
                            \o ToString(FieldCount(F, 1))

(* C2 witness: row 3 has more fields than the header, after a good row 2. *)
C2_Witness ==
    /\ pc = "parsed"
    /\ input.options.header
    /\ ~input.options.relaxed
    /\ \E F \in {Facts} :
          /\ Len(F.lines) = 3
          /\ ~F.unclosed[1] /\ ~Offends(F, 2) /\ ~F.unclosed[3]
          /\ FieldCount(F, 3) > FieldCount(F, 1)
    /\ output = Throw("csv-kit: row 3 has 2 fields, expected 1")

(* C3: strict parse, with or without header: when line n is the first     *)
(* line whose split ends inside an open quote and no earlier line failed, *)
(* parse fails with "unclosed quote at row n" and returns no rows.        *)
C3_UnclosedQuote ==
    (pc = "parsed" /\ ~input.options.relaxed) =>
        \A F \in {Facts} :
            \A n \in 1..Len(F.lines) :
                (F.unclosed[n] /\ \A k \in 1..(n - 1) : ~Offends(F, k))
                => /\ ~output.ok
                   /\ "rows" \notin DOMAIN output
                   /\ output.error =
                         "csv-kit: " \o "unclosed quote at row " \o ToString(n)

(* C3 witness: a headerless strict parse stopped at the unclosed quote of *)
(* its second line.                                                       *)
C3_Witness ==
    /\ pc = "parsed"
    /\ ~input.options.header
    /\ ~input.options.relaxed
    /\ \E F \in {Facts} :
          /\ Len(F.lines) = 2
          /\ ~F.unclosed[1]
          /\ F.unclosed[2]
    /\ output = Throw("csv-kit: unclosed quote at row 2")

(* C4: a relaxed parse never fails, whatever the other options: it returns *)
(* one row per kept line (the header line aside).                          *)
C4_RelaxedNeverFails ==
    (pc = "parsed" /\ input.options.relaxed) =>
        \A lines \in {KeptLines(input.csv, input.options)} :
            /\ output.ok
            /\ Len(output.rows) =
                  IF input.options.header /\ Len(lines) > 0 THEN Len(lines) - 1
                  ELSE Len(lines)

(* C4 witness: a relaxed headered parse returned a row for a line with an *)
(* unclosed quote and more fields than the header.                        *)
C4_Witness ==
    /\ pc = "parsed"
    /\ input.options.relaxed
    /\ input.options.header
    /\ \E F \in {Facts} :
          /\ Len(F.lines) = 2
          /\ F.unclosed[2]
          /\ FieldCount(F, 2) > FieldCount(F, 1)
    /\ output.ok
    /\ Len(output.rows) = 1

(* Field j (1-based) of line k as parse stores it. *)
Stored(F, k, j) ==
    IF input.options.trim THEN Trim(F.fields[k][j]) ELSE F.fields[k][j]

Has(row, key, value) == key \in DOMAIN row /\ row[key] = value

(* The synthetic key "_col{j}" of the field with 0-based index j. *)
SyntheticKey(j) == <<"_col" \o ToString(j)>>

(* What C5 says of the row of line k. *)
RowAsClaimed(F, k) ==
    LET row == output.rows[k - 1]
        f == FieldCount(F, k)
        h == Len(F.names)
    IN /\ \A j \in 1..h : j <= f => Has(row, F.names[j], Stored(F, k, j))
       /\ \A j \in 1..h : j > f => Has(row, F.names[j], <<>>)
       /\ \A j \in (h + 1)..f : Has(row, SyntheticKey(j - 1), Stored(F, k, j))

RelaxedHeadered ==
    pc = "parsed" /\ input.options.relaxed /\ input.options.header

(* C5 as stated: in relaxed headered mode the row of every data line maps *)
(* header name j to field j (j < min(f, h)), header name j to "" (f <= j  *)
(* < h) and "_col{j}" to field j (h <= j < f).                            *)
C5_Original ==
    RelaxedHeadered =>
        \A F \in {Facts} : \A k \in 2..Len(F.lines) : RowAsClaimed(F, k)

(* The header names differ from each other, from __proto__ and from the   *)
(* synthetic keys line k gets.                                            *)
NamesApart(F, k) ==
    /\ \A i, j \in DOMAIN F.names : i # j => F.names[i] # F.names[j]
    /\ \A i \in DOMAIN F.names :
          /\ F.names[i] # <<PROTO>>
          /\ \A j \in (Len(F.names) + 1)..FieldCount(F, k) :
                F.names[i] # SyntheticKey(j - 1)

(* C5 amended: the same, for the lines whose header names are pairwise    *)
(* distinct and distinct from __proto__ and from the line's synthetic     *)
(* keys.                                                                  *)
C5_RelaxedRowShape ==
    RelaxedHeadered =>
        \A F \in {Facts} :
            \A k \in 2..Len(F.lines) : NamesApart(F, k) => RowAsClaimed(F, k)

(* C5 witness: a line with more fields than the header got a synthetic    *)
(* key beside the header's key.                                           *)
C5_Witness ==
    /\ RelaxedHeadered
    /\ \E F \in {Facts} :
          /\ Len(F.lines) = 2
          /\ Len(F.names) = 1
          /\ FieldCount(F, 2) = 2
          /\ NamesApart(F, 2)
          /\ Stored(F, 2, 2) # <<>>
          /\ Has(output.rows[1], SyntheticKey(1), Stored(F, 2, 2))
          /\ Has(output.rows[1], F.names[1], Stored(F, 2, 1))

(* A caller parses a text of words, spaces, delimiters, quotes and line    *)
(* feeds.                                                                 *)

MaxSpacedLen == 4

SpacedChars == {"a", ",", DQ, LF, SP}

InitParseSpaced ==
    /\ pc = "start"
    /\ input \in [csv : Str(SpacedChars, MaxSpacedLen)]
    /\ output = NoOutput
    /\ scan = ScanInit

SpecParseSpaced == InitParseSpaced /\ [][NextParse]_vars

(* The value is the field less white space at its two ends. *)
IsTrimOf(value, field) ==
    \E a \in 0..Len(field) : \E b \in a..Len(field) :
        /\ value = SubSeq(field, a + 1, b)
        /\ \A k \in 1..a : field[k] \in WhiteSpace
        /\ \A k \in (b + 1)..Len(field) : field[k] \in WhiteSpace
        /\ value # <<>> => value[1] \notin WhiteSpace /\ value[Len(value)] \notin WhiteSpace

(* The line breaks and delimiters of a text, in order. *)
Marks(text, delimiter) == SelectSeq(text, LAMBDA c : c \in {LF, CR, delimiter})

(* With trim on, the values parse returns are those it returns with trim  *)
(* off, each with the white space at its ends removed: the lines are      *)
(* split as they are.                                                     *)
TrimmedAfterSplit(F) ==
    LET untrimmed == parse(input.csv, [input.options EXCEPT !.trim = FALSE]) IN
    /\ ~input.options.header =>
          /\ untrimmed.ok
          /\ Len(untrimmed.rows) = Len(output.rows)
          /\ \A k \in DOMAIN output.rows :
                /\ Len(output.rows[k]) = Len(untrimmed.rows[k])
                /\ Len(output.rows[k]) = Len(F.fields[k])
                /\ \A j \in DOMAIN output.rows[k] :
                      /\ untrimmed.rows[k][j] = F.fields[k][j]
                      /\ IsTrimOf(output.rows[k][j], untrimmed.rows[k][j])
    /\ input.options.header =>
          \A k \in 2..Len(F.lines) :
              NamesApart(F, k) =>
                  \A j \in DOMAIN F.names :
                      j <= FieldCount(F, k) =>
                          /\ F.names[j] \in DOMAIN output.rows[k - 1]
                          /\ IsTrimOf(output.rows[k - 1][F.names[j]], F.fields[k][j])

(* C20 as stated: with trim on, the values are trimmed after the split,   *)
(* so the delimiters and line breaks a field took from a quoted region    *)
(* are all in the returned value.                                         *)
C20_Original ==
    (pc = "parsed" /\ input.options.trim /\ output.ok) =>
        \A F \in {Facts} :
            /\ TrimmedAfterSplit(F)
            /\ ~input.options.header =>
                  \A k \in DOMAIN output.rows : \A j \in DOMAIN output.rows[k] :
                      \A d \in {ActiveDelimiter(F.lines, input.options)} :
                          Marks(output.rows[k][j], d) = Marks(F.fields[k][j], d)

(* C20 amended: with trim on, the values are trimmed after the split and  *)
(* never the line, so the delimiters and line breaks a field took from a  *)
(* quoted region are in the returned value, those aside that are white    *)
(* space at an end of the field: the value is the field less the white    *)
(* space at its two ends.                                                 *)
C20_TrimAfterSplit ==
    (pc = "parsed" /\ input.options.trim /\ output.ok) =>
        \A F \in {Facts} :
            /\ TrimmedAfterSplit(F)
            /\ ~input.options.header =>
                  \A k \in DOMAIN output.rows : \A j \in DOMAIN output.rows[k] :
                      \A d \in {ActiveDelimiter(F.lines, input.options)} :
                          LET field == F.fields[k][j] IN
                          (field = <<>> \/ (field[1] \notin WhiteSpace
                                            /\ field[Len(field)] \notin WhiteSpace))
                          => Marks(output.rows[k][j], d) = Marks(field, d)

(* C20 witness: a quoted field of a space and a delimiter came back as    *)
(* the delimiter alone, and was not split at it.                          *)
C20_Witness ==
    /\ pc = "parsed"
    /\ input.options.trim
    /\ ~input.options.header
    /\ input.options.delimiter = ","
    /\ input.csv = <<DQ, SP, ",", DQ>>
    /\ output = Return(<< <<<<",">>>> >>)

----------------------------------------------------------------------------
(* A caller splits a document into its logical lines. *)

MaxCsvLen == 6

CsvChars == {"a", DQ, LF, CR}

InitLines ==
    /\ pc = "start"
    /\ input \in [csv : Str(CsvChars, MaxCsvLen)]
    /\ output = NoOutput
    /\ scan = ScanInit

SplitLines ==
    /\ pc = "start"
    /\ pc' = "split"
    /\ output' = [lines |-> splitLines(input.csv)]
    /\ UNCHANGED <<input, scan>>

NextLines == SplitLines

SpecLines == InitLines /\ [][NextLines]_vars

QuotesBefore(doc, k) == Cardinality({j \in 1..(k - 1) : doc[j] = DQ})

(* The positions where a line terminator starts: a CR or LF that an even  *)
(* number of quotes precede, the LF of a CR LF pair aside.                *)
Terminators(doc) ==
    {k \in DOMAIN doc :
        /\ doc[k] \in {CR, LF}
        /\ QuotesBefore(doc, k) % 2 = 0
        /\ ~(doc[k] = LF /\ k > 1 /\ doc[k - 1] = CR)}

(* The last position of the terminator that starts at k. *)
TerminatorEnd(doc, k) ==
    IF doc[k] = CR /\ k < Len(doc) /\ doc[k + 1] = LF THEN k + 1 ELSE k

(* The pieces of the document between its terminators, in order: one more *)
(* than there are terminators.                                            *)
Segments(doc) ==
    LET T == Terminators(doc)
        n == Cardinality(T)
        nth(j) == CHOOSE k \in T : Cardinality({m \in T : m < k}) = j - 1
    IN [j \in 1..(n + 1) |->
           SubSeq(doc,
                  IF j = 1 THEN 1 ELSE TerminatorEnd(doc, nth(j - 1)) + 1,
                  IF j = n + 1 THEN Len(doc) ELSE nth(j) - 1)]

(* C11: splitLines splits exactly at the terminators (LF, CR, or CR LF as *)
(* one) preceded by an even number of quotes: its lines are, in document  *)
(* order, the segments between those terminators (all of them, or all but *)
(* the last), with quotes and with the terminators preceded by an odd     *)
(* number of quotes left in place as content.                             *)
C11_SplitsAtUnquotedTerminators ==
    pc = "split" =>
        LET r == output.lines
            S == Segments(input.csv)
        IN /\ Len(S) - 1 <= Len(r) /\ Len(r) <= Len(S)
           /\ \A j \in DOMAIN r : r[j] = S[j]
           /\ Flatten(r) = Flatten(S)
           /\ \A k \in DOMAIN input.csv :
                 (input.csv[k] \in {CR, LF} /\ QuotesBefore(input.csv, k) % 2 = 1)
                 => \E j \in DOMAIN r : Includes(r[j], input.csv[k])

(* C11 witness: a quoted LF stayed in the first line and an unquoted CR   *)
(* LF ended it once.                                                      *)
C11_Witness ==
    /\ pc = "split"
    /\ input.csv = <<DQ, LF, DQ, CR, LF, "a">>
    /\ output.lines = << <<DQ, LF, DQ>>, <<"a">> >>

(* C12: splitLines returns the segments between unquoted terminators with *)
(* the last one removed iff it is empty.  So the empty document gives no  *)
(* line, a final unquoted terminator gives no extra empty line, an empty  *)
(* segment before the last gives an empty line, and the lines of a        *)
(* document without CR joined with LF give the document back, less one    *)
(* final LF at most.                                                      *)
C12_DropsOnlyEmptyTail ==
    pc = "split" =>
        LET r == output.lines
            S == Segments(input.csv)
            joined == Join(r, <<LF>>)
        IN /\ r = IF S[Len(S)] = <<>> THEN SubSeq(S, 1, Len(S) - 1) ELSE S
           /\ input.csv = <<>> => r = <<>>
           /\ \A j \in 1..(Len(S) - 1) : r[j] = S[j]
           /\ joined \in {Join(S, <<LF>>), Join(SubSeq(S, 1, Len(S) - 1), <<LF>>)}
           /\ ~Includes(input.csv, CR) =>
                 \/ joined = input.csv
                 \/ joined \o <<LF>> = input.csv

(* C12 witness: the empty segment between two LF became an empty line and *)
(* the empty segment after the final LF did not.                          *)
C12_Witness ==
    /\ pc = "split"
    /\ input.csv = <<"a", LF, LF, "a", LF>>
    /\ output.lines = << <<"a">>, <<>>, <<"a">> >>

----------------------------------------------------------------------------
(* A caller parses a text that may start with a byte-order mark and may   *)
(* end its lines with CR, LF or CR LF.                                    *)

MaxRawLen == 4

RawChars == {"a", ",", DQ, LF, CR, BOM}

InitParseRaw ==
    /\ pc = "start"
    /\ input \in [csv : Str(RawChars, MaxRawLen)]
    /\ output = NoOutput
    /\ scan = ScanInit

SpecParseRaw == InitParseRaw /\ [][NextParse]_vars

(* The logical lines of a document: the segments between its unquoted     *)
(* terminators, the byte-order mark and an empty last segment aside.       *)
LogicalLines(csv) ==
    LET S == Segments(StripBOM(csv)) IN
    IF S[Len(S)] = <<>> THEN SubSeq(S, 1, Len(S) - 1) ELSE S

(* How many of them parse keeps. *)
KeptCount(csv, skipEmptyLines) ==
    LET L == LogicalLines(csv) IN
    IF skipEmptyLines THEN Cardinality({k \in DOMAIN L : L[k] # <<>>})
    ELSE Len(L)

(* C13: a parse that succeeds returns one result per kept logical line in *)
(* document order: with header, one row for each kept line after the      *)
(* first, holding values of that line; without header, the fields of each *)
(* kept line.  The empty document gives the empty collection in both      *)
(* modes, and so does a document of a header line alone, with or without  *)
(* a terminator after it.                                                 *)
C13_OneResultPerLine ==
    (pc = "parsed" /\ output.ok) =>
        \A F \in {Facts} :
            LET kept == KeptCount(input.csv, input.options.skipEmptyLines)
                rows == output.rows
            IN /\ Len(F.lines) = kept
               /\ input.options.header =>
                     /\ Len(rows) = IF kept = 0 THEN 0 ELSE kept - 1
                     /\ \A k \in DOMAIN rows : \A key \in DOMAIN rows[k] :
                           \/ rows[k][key] = <<>>
                           \/ \E j \in DOMAIN F.fields[k + 1] :
                                 rows[k][key] = Stored(F, k + 1, j)
               /\ ~input.options.header =>
                     /\ Len(rows) = kept
                     /\ \A k \in DOMAIN rows :
                           rows[k] = [j \in DOMAIN F.fields[k] |-> Stored(F, k, j)]
               /\ input.csv = <<>> => rows = <<>>
               /\ (kept = 1 /\ input.options.header) => rows = <<>>

(* C13 witness: a headerless parse of a document with a byte-order mark   *)
(* and a CR returned the fields of its two lines in order.                *)
C13_Witness ==
    /\ pc = "parsed"
    /\ ~input.options.header
    /\ input.csv = <<BOM, "a", CR, ",">>
    /\ input.options.delimiter = ","
    /\ output = Return(<< <<<<"a">>>>, <<<<>>, <<>>>> >>)

----------------------------------------------------------------------------
(* A caller generates a text from rows with some options. *)

MaxRows == 2

RowKeys == {<<>>, << <<"a">> >>, << <<"b">> >>,
            << <<"a">>, <<"b">> >>, << <<"b">>, <<"a">> >>}

RowValues == {NullValue, Text(<<"x">>), Text(<<",">>)}

(* The objects with some of the keys a and b, in either order. *)
RowObjects ==
    UNION {{Object(keys, get) :
               get \in [{keys[k] : k \in DOMAIN keys} -> RowValues]} :
           keys \in RowKeys}

ColumnChoices ==
    {NoColumns,
     [kind |-> "list", keys |-> <<>>],
     [kind |-> "list", keys |-> << <<"b">>, <<"a">> >>],
     [kind |-> "list", keys |-> << <<"a">>, <<"constructor">> >>],
     [kind |-> "map", keys |-> << <<"b">>, <<"a">> >>,
                      headers |-> << <<"B">>, <<",">> >>]}

GenerateOptionSets ==
    {[header |-> h, delimiter |-> t[1], newline |-> t[2], bom |-> b, columns |-> c] :
        h \in BOOLEAN, b \in BOOLEAN, c \in ColumnChoices,
        t \in {<<",", <<LF>>>>, <<";", <<CR, LF>>>>}}

InitGenerate ==
    /\ pc = "start"
    /\ \E n \in 0..MaxRows : input \in [data : [1..n -> RowObjects]]
    /\ output = NoOutput
    /\ scan = ScanInit

GenerateWith ==
    /\ pc = "start"
    /\ pc' = "generated"
    /\ \E options \in GenerateOptionSets :
          /\ input' = [data |-> input.data, options |-> options]
          /\ output' = [csv |-> generate(input.data, options)]
    /\ UNCHANGED scan

NextGenerate == GenerateWith

SpecGenerate == InitGenerate /\ [][NextGenerate]_vars

(* How often a text occurs in a text. *)
Occurrences(text, part) ==
    Cardinality({k \in 1..(Len(text) - Len(part) + 1) :
                    SubSeq(text, k, k + Len(part) - 1) = part})

(* C14: the text generate returns is the byte-order mark, if asked for,   *)
(* followed by the emitted lines joined by the newline, nothing after the *)
(* last; the emitted lines are the header line, iff header is on and the  *)
(* projection is not empty, and then one line per row in input order.  So *)
(* no rows and no columns give "" or the byte-order mark alone, and the   *)
(* mark, if asked for, comes first whatever else is emitted.              *)
C14_OutputStructure ==
    pc = "generated" =>
        LET o == input.options
            data == input.data
            headers == ProjectedHeaders(data, o.columns)
            headerLines == IF o.header /\ Len(headers) > 0
                           THEN <<HeaderLine(headers, o.delimiter)>>
                           ELSE <<>>
            rowLines == [k \in DOMAIN data |->
                            RowLine(data[k], ProjectedKeys(data, o.columns),
                                    o.delimiter)]
            emitted == headerLines \o rowLines
            body == IF o.bom THEN Tail(output.csv) ELSE output.csv
        IN /\ o.bom => output.csv # <<>> /\ output.csv[1] = BOM
           /\ ~Includes(body, BOM)
           /\ body = Join(emitted, o.newline)
           /\ Len(emitted) = Len(data) + (IF o.header /\ Len(headers) > 0 THEN 1 ELSE 0)
           /\ Occurrences(body, o.newline) =
                 IF emitted = <<>> THEN 0 ELSE Len(emitted) - 1
           /\ (data = <<>> /\ o.columns = NoColumns) => body = <<>>

(* C14 witness: a mark, a header line and two row lines joined by CR LF;  *)
(* the last row line is empty and nothing follows it.                     *)
C14_Witness ==
    /\ pc = "generated"
    /\ input.options.bom
    /\ input.options.header
    /\ input.options.newline = <<CR, LF>>
    /\ input.options.columns = NoColumns
    /\ Len(input.data) = 2
    /\ output.csv = <<BOM, "a", CR, LF, "x", CR, LF>>

(* The keys C15 says generate reads. *)
ClaimedKeys(data, columns) ==
    IF columns.kind \in {"list", "map"} THEN columns.keys
    ELSE IF data # <<>> THEN data[1].keys
    ELSE <<>>

(* The text C15 gives the value of a key in a row: "" when the row has no *)
(* such key or its value is null.                                         *)
ClaimedText(row, key) ==
    IF key \in KeySet(row) /\ ~row.get[key].null THEN row.get[key].text
    ELSE <<>>

ClaimedRowLine(row, keys, delimiter) ==
    Join([j \in DOMAIN keys |-> escapeField(ClaimedText(row, keys[j]), delimiter)],
         <<delimiter>>)

(* The text C15 describes for some rows and options. *)
ClaimedText15(data, o) ==
    LET keys == ClaimedKeys(data, o.columns)
        names == IF o.columns.kind = "map" THEN o.columns.headers ELSE keys
        headerLines ==
            IF o.header /\ names # <<>>
            THEN <<Join([j \in DOMAIN names |-> escapeField(names[j], o.delimiter)],
                        <<o.delimiter>>)>>
            ELSE <<>>
        rowLines == [k \in DOMAIN data |-> ClaimedRowLine(data[k], keys, o.delimiter)]
    IN (IF o.bom THEN <<BOM>> ELSE <<>>) \o Join(headerLines \o rowLines, o.newline)

(* The rows have none of the properties an object inherits among the      *)
(* projected keys, unless as their own.                                   *)
NoInheritedRead(data, columns) ==
    LET keys == ClaimedKeys(data, columns) IN
    \A r \in DOMAIN data : \A j \in DOMAIN keys :
        keys[j] \in DOMAIN Inherited => keys[j] \in KeySet(data[r])

(* C15 as stated: the projected keys are the columns list, the keys of    *)
(* the columns mapping (its values being the header names), or the first  *)
(* row's keys; each row line joins, in projection order, the escaped text *)
(* of the row's value for each projected key, "" for a null or absent     *)
(* value; no other key of a row is emitted; header=false only leaves the  *)
(* header line out.                                                       *)
C15_Original ==
    pc = "generated" =>
        /\ output.csv = ClaimedText15(input.data, input.options)
        /\ generate(input.data, [input.options EXCEPT !.header = FALSE])
              = ClaimedText15(input.data, [input.options EXCEPT !.header = FALSE])

(* C15, for the rows and columns where no projected key is absent from a  *)
(* row and inherited by it: there the text is as the claim describes.     *)
C15_OwnProperties ==
    (pc = "generated" /\ NoInheritedRead(input.data, input.options.columns)) =>
        /\ output.csv = ClaimedText15(input.data, input.options)
        /\ generate(input.data, [input.options EXCEPT !.header = FALSE])
              = ClaimedText15(input.data, [input.options EXCEPT !.header = FALSE])

(* C15 witness: the columns name "constructor", the row does not have it, *)
(* and the row line holds the text of the inherited function, not "".     *)
C15_Witness ==
    /\ pc = "generated"
    /\ ~input.options.header
    /\ ~input.options.bom
    /\ input.options.delimiter = ","
    /\ input.options.columns.kind = "list"
    /\ input.options.columns.keys = << <<"a">>, <<"constructor">> >>
    /\ input.data = <<Object(<< <<"a">> >>, [key \in {<<"a">>} |-> Text(<<"x">>)])>>
    /\ output.csv = <<"x", ",", "function Object() { [native code] }">>
    /\ ClaimedText15(input.data, input.options) = <<"x", ",">>

----------------------------------------------------------------------------
(* The counter of the detector against the field splitter. *)

(* The separators splitFields finds in a line: its fields less one. *)
Separators(line, c) == Len(splitFields(line, c, TRUE).fields) - 1

(* The scan of the line reads some quote as text: outside quotes, after   *)
(* other characters of the field.                                         *)
ReadsLiteralQuote(line, c) ==
    LET t == ScanTrace(ScanInit, line, c) IN
    \E k \in 1..(Len(t) - 1) :
        ~t[k].inQuotes /\ t[k].current # <<>> /\ line[t[k].i] = DQ

(* C21 as stated: for every line of the sample and every candidate c, the *)
(* count detectDelimiter uses is the number of occurrences of c that      *)
(* splitFields takes for separators: the number of fields of the relaxed  *)
(* split, less one.                                                       *)
C21_Original ==
    pc \in {"detected", "compared"} =>
        \A c \in DelimiterSet : \A k \in DOMAIN input.lines :
            CountsOf(input.lines, c)[k] = Separators(input.lines[k], c)

(* C21, for the lines in which splitFields reads no quote as text: there  *)
(* the count is the number of separators.                                 *)
C21_NoLiteralQuote ==
    pc \in {"detected", "compared"} =>
        \A c \in DelimiterSet : \A k \in DOMAIN input.lines :
            ~ReadsLiteralQuote(input.lines[k], c) =>
                CountsOf(input.lines, c)[k] = Separators(input.lines[k], c)

(* C21 witness: in the line a";a the detector counts no ';' although      *)
(* splitFields separates two fields at it, and ',' was returned for want  *)
(* of a counted candidate.                                                *)
C21_Witness ==
    /\ pc = "detected"
    /\ input.lines = << <<"a", DQ, ";", "a">> >>
    /\ CountsOf(input.lines, ";") = <<0>>
    /\ splitFields(input.lines[1], ";", TRUE) = Fields(<< <<"a", DQ>>, <<"a">> >>)
    /\ output.delimiter = ","

----------------------------------------------------------------------------
(* A caller splits a document into lines and each line into fields, as    *)
(* parse does in strict mode.                                             *)

FieldedChars == {"a", ",", DQ, LF, CR}

InitLinesFields ==
    /\ pc = "start"
    /\ input \in [csv : Str(FieldedChars, MaxCsvLen)]
    /\ output = NoOutput
    /\ scan = ScanInit

SplitEachLine ==
    /\ pc = "split"
    /\ pc' = "fields"
    /\ \E delimiter \in DelimiterSet :
          /\ input' = [csv |-> input.csv, delimiter |-> delimiter]
          /\ output' = [lines |-> output.lines,
                        split |-> [k \in DOMAIN output.lines |->
                                      splitFields(output.lines[k], delimiter, FALSE)]]
    /\ UNCHANGED scan

NextLinesFields == SplitLines \/ SplitEachLine

SpecLinesFields == InitLinesFields /\ [][NextLinesFields]_vars

(* What C22 says of line k: splitFields reads the terminators kept in it  *)
(* inside quotes; if a terminator ended it, splitFields ends it outside   *)
(* quotes; and it fails for an unclosed quote only if it is the last.     *)
LineAgrees(k) ==
    LET line == output.lines[k]
        t == ScanTrace(ScanInit, line, input.delimiter)
    IN /\ \A j \in 1..(Len(t) - 1) : line[t[j].i] \in {CR, LF} => t[j].inQuotes
       /\ k <= Cardinality(Terminators(input.csv)) => ~t[Len(t)].inQuotes
       /\ output.split[k] = Null => k = Len(output.lines)

(* C22 as stated: for every document and delimiter, every terminator that *)
(* splitLines keeps as content of a line is in a region splitFields reads *)
(* as quoted, every terminator at which splitLines ends a line is at a    *)
(* position where splitFields is outside quotes, and so a strict split    *)
(* fails for an unclosed quote on the last logical line only.             *)
C22_Original ==
    pc = "fields" => \A k \in DOMAIN output.lines : LineAgrees(k)

(* C22, for the documents in whose lines splitFields reads no quote as    *)
(* text: there the two scans agree.                                       *)
C22_NoLiteralQuote ==
    pc = "fields" =>
        ((\A k \in DOMAIN output.lines :
             ~ReadsLiteralQuote(output.lines[k], input.delimiter))
         => \A k \in DOMAIN output.lines : LineAgrees(k))

(* C22 witness: splitLines ended the line a"," at the LF after its second *)
(* quote, splitFields opened a field at that quote and failed for an      *)
(* unclosed quote on the first of two lines.                              *)
C22_Witness ==
    /\ pc = "fields"
    /\ input.delimiter = ","
    /\ input.csv = <<"a", DQ, ",", DQ, LF, "a">>
    /\ output.lines = << <<"a", DQ, ",", DQ>>, <<"a">> >>
    /\ output.split[1] = Null
    /\ output.split[2] = Fields(<< <<"a">> >>)

----------------------------------------------------------------------------
(* The relaxed parse against the strict parse of the same text. *)

(* What the strict parse returns for the text and the other options of a  *)
(* relaxed parse.                                                         *)
StrictResult == parse(input.csv, [input.options EXCEPT !.relaxed = FALSE])

(* C23: for every text and every setting of the other options, when the   *)
(* strict parse succeeds the relaxed parse returns the same result: the   *)
(* same rows in the same order with the same keys and values; with header *)
(* every key of a row is a header name (none is synthetic) and every line *)
(* has as many fields as the header (none is padded).                     *)
C23_RelaxedExtendsStrict ==
    (pc = "parsed" /\ input.options.relaxed) =>
        \A strict \in {StrictResult} :
            strict.ok =>
                /\ output = strict
                /\ input.options.header =>
                      \A F \in {Facts} :
                          \A k \in 2..Len(F.lines) :
                              /\ FieldCount(F, k) = Len(F.names)
                              /\ DOMAIN output.rows[k - 1]
                                    \subseteq {F.names[j] : j \in DOMAIN F.names}

(* C23 witness: a relaxed headered parse returned the one row the strict  *)
(* parse returns for a header of two names and a line of two empty        *)
(* fields.                                                                *)
C23_Witness ==
    /\ pc = "parsed"
    /\ input.options.relaxed
    /\ input.options.header
    /\ input.csv = <<"a", ",", LF, ",">>
    /\ input.options.delimiter = ","
    /\ StrictResult.ok
    /\ output = StrictResult
    /\ output = Return(<<[key \in {<<"a">>, <<>>} |-> <<>>]>>)

====
